---- MODULE Spec2Model ----
(***************************************************************************)
(* Model of backend/open_webui/routers/sandboxes.py: the per-chat sandbox  *)
(* file manager (sanitize_path, build_file_tree and the request handlers)  *)
(* over a POSIX filesystem with directories, regular files and symbolic    *)
(* links.                                                                  *)
(*                                                                         *)
(* A Python str is a sequence of one-character strings, so that decoding,  *)
(* stripping, splitting and joining are computed character by character.   *)
(* A pathlib.Path is a record [abs, parts]; a filesystem location is the   *)
(* sequence of entry names leading to it from "/".                         *)
(***************************************************************************)
EXTENDS Integers, Sequences, FiniteSets, TLC

VARIABLES
    raw,        \* SpecSan: the raw path handed to sanitize_path
    clean,      \* SpecSan: what sanitize_path returned for it
    sanitized,  \* SpecSan: whether sanitize_path has run
    fs,         \* the filesystem: location -> node
    pre,        \* the filesystem as it was when the last request arrived
    req,        \* the last request (handler and inputs)
    resp,       \* the response to the last request
    calls,      \* the external calls the last handler made, in order
    procs       \* SpecConc: the in-flight create requests; SpecMake: the
                \* response to the create request before the list

vars == <<raw, clean, sanitized, fs, pre, req, resp, calls, procs>>

-----------------------------------------------------------------------------
(* Bounds of the model *)

\* Longest raw string SpecSan enumerates.
MaxRawLen == 4

\* Most entries a run adds to the world it starts in.
MaxEntries == 2

-----------------------------------------------------------------------------
(* Python str operations *)

\* The characters SpecSan builds raw strings from.
Alphabet == {"x", ".", "/", "%", "2", "e", "f"}

HexDigits == {"0","1","2","3","4","5","6","7","8","9",
              "a","b","c","d","e","f","A","B","C","D","E","F"}

HexVal(c) ==
    CASE c = "0" -> 0 [] c = "1" -> 1 [] c = "2" -> 2 [] c = "3" -> 3
      [] c = "4" -> 4 [] c = "5" -> 5 [] c = "6" -> 6 [] c = "7" -> 7
      [] c = "8" -> 8 [] c = "9" -> 9
      [] c \in {"a", "A"} -> 10 [] c \in {"b", "B"} -> 11
      [] c \in {"c", "C"} -> 12 [] c \in {"d", "D"} -> 13
      [] c \in {"e", "E"} -> 14 [] c \in {"f", "F"} -> 15

\* U+FFFD, what decoding with errors='replace' yields for a byte that is not UTF-8.
ReplacementChar == "U+FFFD"

\* The character of a decoded byte.  Bytes >= 0x80 reachable here never form
\* a valid UTF-8 sequence (no continuation byte 0x80..0xBF can be written with
\* the hex digits of Alphabet), so each decodes to U+FFFD.  Of the ASCII
\* bytes only those the model's strings can spell are tabulated.
Chr(n) ==
    IF n >= 128 THEN ReplacementChar
    ELSE CASE n = 34 -> "\""
           [] n = 37 -> "%"
           [] n = 46 -> "."
           [] n = 47 -> "/"

Tail2(s) == SubSeq(s, 3, Len(s))

\* urllib.parse.unquote: every %XX with two hex digits becomes the byte XX;
\* a % not followed by two hex digits stays as it is.
RECURSIVE unquote(_)
unquote(s) ==
    IF s = <<>> THEN <<>>
    ELSE IF s[1] = "%" /\ Len(s) >= 3 /\ s[2] \in HexDigits /\ s[3] \in HexDigits
         THEN <<Chr(16 * HexVal(s[2]) + HexVal(s[3]))>> \o unquote(Tail2(Tail(s)))
         ELSE <<s[1]>> \o unquote(Tail(s))

\* str.lstrip(c), str.rstrip(c), str.strip(c)
RECURSIVE lstrip(_, _)
lstrip(s, c) == IF s # <<>> /\ s[1] = c THEN lstrip(Tail(s), c) ELSE s

RECURSIVE rstrip(_, _)
rstrip(s, c) ==
    IF s # <<>> /\ s[Len(s)] = c THEN rstrip(SubSeq(s, 1, Len(s) - 1), c) ELSE s

strip(s, c) == rstrip(lstrip(s, c), c)

\* str.split(c): always at least one piece; "" splits into [""].
RECURSIVE split(_, _)
split(s, c) ==
    IF s = <<>> THEN << <<>> >>
    ELSE LET rest == split(Tail(s), c)
         IN  IF s[1] = c THEN << <<>> >> \o rest
             ELSE << <<s[1]>> \o rest[1] >> \o Tail(rest)

\* c.join(parts)
RECURSIVE join(_, _)
join(parts, c) ==
    IF parts = <<>> THEN <<>>
    ELSE IF Len(parts) = 1 THEN parts[1]
    ELSE parts[1] \o <<c>> \o join(Tail(parts), c)

DotSeg == <<".">>
DotDotSeg == <<".", ".">>

\* The mutant of KeepPart: the filter forgets the ".." test.
KeepPartNoDotDot(part) == part # <<>> /\ part # DotSeg

\* The test of sanitize_path's loop: `if part and part != "." and part != ".."`.
KeepPart(part) == part # <<>> /\ part # DotSeg /\ part # DotDotSeg

\* The mutant of sanitize_path: the filter runs before the decoding.
sanitize_path_decode_last(path) ==
    unquote(join(SelectSeq(split(strip(path, "/"), "/"), KeepPart), "/"))

sanitize_path(path) ==
    join(SelectSeq(split(strip(unquote(path), "/"), "/"), KeepPart), "/")

-----------------------------------------------------------------------------
(* pathlib.PurePosixPath: [abs, parts] *)

IsPrefix(a, b) == Len(a) <= Len(b) /\ SubSeq(b, 1, Len(a)) = a

Front(s) == SubSeq(s, 1, Len(s) - 1)

Last(s) == s[Len(s)]

\* Parsing drops empty and "." segments and keeps "..".
PathKeepSeg(seg) == seg # <<>> /\ seg # DotSeg

PathSegs(s) == SelectSeq(split(s, "/"), PathKeepSeg)

\* Path(s)
PathOf(s) == [abs |-> s # <<>> /\ s[1] = "/", parts |-> PathSegs(s)]

\* p / s: an absolute s replaces p.
PathJoin(p, s) ==
    IF s # <<>> /\ s[1] = "/" THEN PathOf(s)
    ELSE [abs |-> p.abs, parts |-> p.parts \o PathSegs(s)]

\* p.parent (lexical)
PathParent(p) == IF p.parts = <<>> THEN p ELSE [p EXCEPT !.parts = Front(p.parts)]

\* str(p)
PathStr(p) ==
    IF p.abs THEN <<"/">> \o join(p.parts, "/")
    ELSE IF p.parts = <<>> THEN <<".">>
    ELSE join(p.parts, "/")

\* p.relative_to(base) is lexical: it raises ValueError unless base's parts
\* lead p's and both are absolute or both relative.
RelativeToOk(p, base) == p.abs = base.abs /\ IsPrefix(base.parts, p.parts)

RelativeTo(p, base) ==
    [abs |-> FALSE, parts |-> SubSeq(p.parts, Len(base.parts) + 1, Len(p.parts))]

-----------------------------------------------------------------------------
(* The filesystem: a function from locations to nodes *)

DirNode == [kind |-> "dir", size |-> 0, target |-> <<>>]

FileNode(n) == [kind |-> "file", size |-> n, target |-> <<>>]

LinkNode(t) == [kind |-> "link", size |-> 0, target |-> t]

\* The working directory of the server process, against which the relative
\* SANDBOX_BASE_PATH is resolved.
Cwd == <<>>

DataName == <<"d", "a", "t", "a">>

SandboxesName == <<"s", "a", "n", "d", "b", "o", "x", "e", "s">>

SANDBOX_BASE_PATH == PathOf(<<".", "/">> \o DataName \o <<"/">> \o SandboxesName)

\* The chat whose sandbox the requests address, and another user's chat.
ChatId == <<"c", "1">>

OtherChatId == <<"c", "2">>

get_sandbox_path(chat_id) == PathJoin(SANDBOX_BASE_PATH, chat_id)

BaseLoc == Cwd \o <<DataName, SandboxesName>>

\* The location of the sandbox root of ChatId.
RootLoc == Append(BaseLoc, ChatId)

OtherRootLoc == Append(BaseLoc, OtherChatId)

ParentLoc(loc) == IF loc = <<>> THEN <<>> ELSE Front(loc)

StartLoc(p) == IF p.abs THEN <<>> ELSE Cwd

Within(loc, root) == IsPrefix(root, loc)

FsPut(f, loc, node) ==
    [l \in DOMAIN f \cup {loc} |-> IF l = loc THEN node ELSE f[l]]

FsRemoveTree(f, loc) ==
    [l \in {x \in DOMAIN f : ~IsPrefix(loc, x)} |-> f[l]]

Children(f, loc) == {l \in DOMAIN f : Len(l) = Len(loc) + 1 /\ IsPrefix(loc, l)}

\* The kernel's walk over the directory components of a path: symbolic links
\* are followed, ".." is the parent of the directory reached.  Link targets
\* are absolute and hold no link on their own path.
RECURSIVE WalkDir(_, _, _)
WalkDir(f, cur, parts) ==
    IF parts = <<>> THEN [err |-> "ok", loc |-> cur]
    ELSE IF parts[1] = DotDotSeg THEN WalkDir(f, ParentLoc(cur), Tail(parts))
    ELSE LET n == Append(cur, parts[1])
         IN  IF n \notin DOMAIN f THEN [err |-> "noent", loc |-> n]
             ELSE IF f[n].kind = "dir" THEN WalkDir(f, n, Tail(parts))
             ELSE IF f[n].kind = "file" THEN [err |-> "notdir", loc |-> n]
             ELSE LET t == f[n].target
                  IN  IF t \notin DOMAIN f THEN [err |-> "noent", loc |-> t]
                      ELSE IF f[t].kind = "dir" THEN WalkDir(f, t, Tail(parts))
                      ELSE [err |-> "notdir", loc |-> t]

\* What a link in the last component leads to, when it is followed.
LookupTarget(f, t) ==
    IF t \in DOMAIN f THEN [err |-> "ok", loc |-> t]
    ELSE IF ParentLoc(t) \in DOMAIN f /\ f[ParentLoc(t)].kind = "dir"
    THEN [err |-> "absent", loc |-> t]
    ELSE [err |-> "noent", loc |-> t]

LookupEntry(f, n, follow) ==
    IF n \notin DOMAIN f THEN [err |-> "absent", loc |-> n]
    ELSE IF f[n].kind = "link" /\ follow THEN LookupTarget(f, f[n].target)
    ELSE [err |-> "ok", loc |-> n]

\* d: the walk to the directory of the last component.
LookupLast(f, d, last, follow) ==
    IF d.err # "ok" THEN d
    ELSE IF last = DotDotSeg THEN [err |-> "ok", loc |-> ParentLoc(d.loc)]
    ELSE LookupEntry(f, Append(d.loc, last), follow)

\* The entry a path names.  err is "ok" (loc exists), "absent" (loc does not
\* exist and its directory does), "noent" or "notdir" (the walk failed).
\* `follow` says whether a symbolic link in the last component is followed.
Lookup(f, p, follow) ==
    IF p.parts = <<>> THEN [err |-> "ok", loc |-> StartLoc(p)]
    ELSE LookupLast(f, WalkDir(f, StartLoc(p), Front(p.parts)), Last(p.parts), follow)

KindAt(f, l, kind) == l.err = "ok" /\ f[l.loc].kind = kind

\* Path.exists(), Path.is_file(), Path.is_dir(): stat follows links and any
\* failure reads as False.
exists(f, p) == Lookup(f, p, TRUE).err = "ok"

is_file(f, p) == KindAt(f, Lookup(f, p, TRUE), "file")

is_dir(f, p) == KindAt(f, Lookup(f, p, TRUE), "dir")

\* Path.resolve() (not strict): links are followed where they exist, a
\* missing component is kept as written, ".." drops the last component.
RECURSIVE ResolveFrom(_, _, _)
ResolveFrom(f, cur, parts) ==
    IF parts = <<>> THEN cur
    ELSE IF parts[1] = DotDotSeg THEN ResolveFrom(f, ParentLoc(cur), Tail(parts))
    ELSE LET n == Append(cur, parts[1])
         IN  IF n \in DOMAIN f /\ f[n].kind = "link"
             THEN ResolveFrom(f, f[n].target, Tail(parts))
             ELSE ResolveFrom(f, n, Tail(parts))

resolve(f, p) == ResolveFrom(f, StartLoc(p), p.parts)

\* `p.resolve().relative_to(root.resolve())` raises no ValueError.
Confined(f, p, root) == Within(resolve(f, p), resolve(f, root))

-----------------------------------------------------------------------------
(* Filesystem calls.  Each yields [err, fs]: err is "ok" or the error raised *)
(* ("exists" FileExistsError, "noent" FileNotFoundError, "notdir"            *)
(* NotADirectoryError, "isdir" IsADirectoryError, "oserror" another OSError) *)
(* and fs the filesystem afterwards.  The operators named ...At take the     *)
(* entry the path was looked up to.                                          *)

Ret(e, f) == [err |-> e, fs |-> f]

\* The mutant of MkdirAt: a directory already there counts as made.
MkdirAtOrThere(f, l) ==
    IF l.err = "ok" THEN Ret(IF f[l.loc].kind = "dir" THEN "ok" ELSE "exists", f)
    ELSE IF l.err = "absent" THEN Ret("ok", FsPut(f, l.loc, DirNode))
    ELSE Ret(l.err, f)

MkdirAt(f, l) ==
    IF l.err = "ok" THEN Ret("exists", f)
    ELSE IF l.err = "absent" THEN Ret("ok", FsPut(f, l.loc, DirNode))
    ELSE Ret(l.err, f)

\* os.mkdir(p): the last component is not followed; anything there is EEXIST.
os_mkdir(f, p) == MkdirAt(f, Lookup(f, p, FALSE))

\* Path.mkdir(parents=parents, exist_ok=exist_ok):
\*   try: os.mkdir(self)
\*   except FileNotFoundError:
\*       if not parents or self.parent == self: raise
\*       self.parent.mkdir(parents=True, exist_ok=True)
\*       self.mkdir(parents=False, exist_ok=exist_ok)
\*   except OSError:
\*       if not exist_ok or not self.is_dir(): raise
RECURSIVE Path_mkdir(_, _, _, _)
RECURSIVE Path_mkdir_retry(_, _, _)
RECURSIVE Path_mkdir_except(_, _, _, _, _)

\* up: the outcome of self.parent.mkdir(parents=True, exist_ok=True).
Path_mkdir_retry(p, exist_ok, up) ==
    IF up.err # "ok" THEN up ELSE Path_mkdir(up.fs, p, FALSE, exist_ok)

\* r: the outcome of os.mkdir(self).
Path_mkdir_except(f, p, parents, exist_ok, r) ==
    IF r.err = "ok" THEN r
    ELSE IF r.err = "noent"
    THEN IF ~parents \/ PathParent(p) = p THEN r
         ELSE Path_mkdir_retry(p, exist_ok, Path_mkdir(f, PathParent(p), TRUE, TRUE))
    ELSE IF ~exist_ok \/ ~is_dir(f, p) THEN r
    ELSE Ret("ok", f)

Path_mkdir(f, p, parents, exist_ok) ==
    Path_mkdir_except(f, p, parents, exist_ok, os_mkdir(f, p))

TouchAt(f, l) ==
    IF l.err = "ok" THEN Ret("exists", f)
    ELSE IF l.err = "absent" THEN Ret("ok", FsPut(f, l.loc, FileNode(0)))
    ELSE Ret(l.err, f)

\* Writing n bytes to the entry l of a path opened "wb".
WriteAt(f, l, n) ==
    IF l.err = "ok"
    THEN IF f[l.loc].kind = "dir" THEN Ret("isdir", f)
         ELSE Ret("ok", FsPut(f, l.loc, FileNode(n)))
    ELSE IF l.err = "absent" THEN Ret("ok", FsPut(f, l.loc, FileNode(n)))
    ELSE Ret(l.err, f)

\* Opening an entry for writing without O_TRUNC and writing nothing.
OpenAt(f, l) ==
    IF l.err = "ok"
    THEN IF f[l.loc].kind = "dir" THEN Ret("isdir", f) ELSE Ret("ok", f)
    ELSE IF l.err = "absent" THEN Ret("ok", FsPut(f, l.loc, FileNode(0)))
    ELSE Ret(l.err, f)

\* The mutant of touch_excl: touch(exist_ok=True), an existing file is kept.
touch_exist_ok(f, p) == OpenAt(f, Lookup(f, p, TRUE))

\* Path.touch(exist_ok=False): os.open(p, O_CREAT | O_WRONLY | O_EXCL); a link
\* in the last component is not followed and anything there is EEXIST.
touch_excl(f, p) == TouchAt(f, Lookup(f, p, FALSE))

\* open(p, "wb") and the copy of n bytes into it: a link in the last
\* component is followed, the file is created or truncated.
open_wb(f, p, n) == WriteAt(f, Lookup(f, p, TRUE), n)

UnlinkAt(f, l) ==
    IF l.err = "ok"
    THEN IF f[l.loc].kind = "dir" THEN Ret("isdir", f)
         ELSE Ret("ok", FsRemoveTree(f, l.loc))
    ELSE IF l.err = "absent" THEN Ret("noent", f)
    ELSE Ret(l.err, f)

\* Path.unlink()
unlink(f, p) == UnlinkAt(f, Lookup(f, p, FALSE))

\* The mutant of RmtreeAt: the folder and its direct children are removed,
\* what the folders in it hold is left behind.
RmtreeAtShallow(f, l) ==
    IF l.err = "ok"
    THEN IF f[l.loc].kind = "link" THEN Ret("oserror", f)
         ELSE IF f[l.loc].kind = "file" THEN Ret("notdir", f)
         ELSE Ret("ok", [x \in {y \in DOMAIN f :
                                  ~IsPrefix(l.loc, y) \/ Len(y) > Len(l.loc) + 1} |-> f[x]])
    ELSE IF l.err = "absent" THEN Ret("noent", f)
    ELSE Ret(l.err, f)

RmtreeAt(f, l) ==
    IF l.err = "ok"
    THEN IF f[l.loc].kind = "link" THEN Ret("oserror", f)
         ELSE IF f[l.loc].kind = "file" THEN Ret("notdir", f)
         ELSE Ret("ok", FsRemoveTree(f, l.loc))
    ELSE IF l.err = "absent" THEN Ret("noent", f)
    ELSE Ret(l.err, f)

\* shutil.rmtree(p): refuses a symbolic link, fails on a regular file.
rmtree(f, p) == RmtreeAt(f, Lookup(f, p, FALSE))

\* The tree at `from` moved to `to`.
FsMove(f, from, to) ==
    [l \in {x \in DOMAIN f : ~IsPrefix(from, x) /\ ~IsPrefix(to, x)}
           \cup {to \o SubSeq(m, Len(from) + 1, Len(m)) :
                    m \in {x \in DOMAIN f : IsPrefix(from, x)}} |->
        IF IsPrefix(to, l) THEN f[from \o SubSeq(l, Len(to) + 1, Len(l))] ELSE f[l]]

\* rename(2) of the entry lo to the entry ln: an existing destination is
\* replaced (a file by a non-directory, an empty directory by a directory);
\* a directory does not move below itself.
RenameAt(f, lo, ln) ==
    IF lo.err # "ok" THEN Ret(IF lo.err = "absent" THEN "noent" ELSE lo.err, f)
    ELSE IF ln.err \notin {"ok", "absent"} THEN Ret(ln.err, f)
    ELSE IF lo.loc = ln.loc THEN Ret("ok", f)
    ELSE IF f[lo.loc].kind = "dir" /\ IsPrefix(lo.loc, ln.loc) THEN Ret("oserror", f)
    ELSE IF ln.err = "absent" THEN Ret("ok", FsMove(f, lo.loc, ln.loc))
    ELSE IF f[lo.loc].kind = "dir"
    THEN IF f[ln.loc].kind # "dir" THEN Ret("notdir", f)
         ELSE IF Children(f, ln.loc) # {} THEN Ret("oserror", f)
         ELSE Ret("ok", FsMove(f, lo.loc, ln.loc))
    ELSE IF f[ln.loc].kind = "dir" THEN Ret("isdir", f)
    ELSE Ret("ok", FsMove(f, lo.loc, ln.loc))

\* Path.rename(new): neither last component is followed.
os_rename(f, old, new) == RenameAt(f, Lookup(f, old, FALSE), Lookup(f, new, FALSE))

-----------------------------------------------------------------------------
(* Ordering of strings, for build_file_tree's sort *)

UpperCase == <<"A","B","C","D","E","F","G","H","I","J","K","L","M",
               "N","O","P","Q","R","S","T","U","V","W","X","Y","Z">>

LowerCase == <<"a","b","c","d","e","f","g","h","i","j","k","l","m",
               "n","o","p","q","r","s","t","u","v","w","x","y","z">>

\* The characters of the model in ascending code point order.
CodePoints ==
    <<"\"", "%", ".", "/", "0","1","2","3","4","5","6","7","8","9">>
    \o UpperCase \o <<"_">> \o LowerCase \o <<ReplacementChar>>

Ord(c) == CHOOSE i \in DOMAIN CodePoints : CodePoints[i] = c

\* str.lower()
lower_char(c) ==
    IF \E i \in DOMAIN UpperCase : UpperCase[i] = c
    THEN LowerCase[CHOOSE i \in DOMAIN UpperCase : UpperCase[i] = c]
    ELSE c

RECURSIVE lower(_)
lower(s) == IF s = <<>> THEN <<>> ELSE <<lower_char(s[1])>> \o lower(Tail(s))

\* a < b for str
RECURSIVE StrLess(_, _)
StrLess(a, b) ==
    IF b = <<>> THEN FALSE
    ELSE IF a = <<>> THEN TRUE
    ELSE IF a[1] = b[1] THEN StrLess(Tail(a), Tail(b))
    ELSE Ord(a[1]) < Ord(b[1])

\* The mutant of KeyLess: the ids are compared as they are, not lower-cased.
KeyLessCaseSensitive(x, y) ==
    \/ x.type # "file" /\ y.type = "file"
    \/ (x.type = "file") = (y.type = "file") /\ StrLess(x.id, y.id)

\* key(x) < key(y) for key = lambda x: (x["type"] == "file", x["id"].lower())
KeyLess(x, y) ==
    \/ x.type # "file" /\ y.type = "file"
    \/ (x.type = "file") = (y.type = "file") /\ StrLess(lower(x.id), lower(y.id))

\* sorted(items, key=...) for every order in which iterdir() may have
\* yielded the items: the sort is stable, so items of equal key keep the
\* order of the directory scan, which the filesystem chooses.
RECURSIVE SortedLists(_)
SortedLists(items) ==
    IF items = {} THEN {<<>>}
    ELSE UNION { { <<m>> \o t : t \in SortedLists(items \ {m}) } :
                 m \in {x \in items : \A y \in items : ~KeyLess(y, x)} }

-----------------------------------------------------------------------------
(* build_file_tree *)

\* An entry of a listing.  A folder's dict has no "size" key: size is 0 here.
\* "date" (st_mtime) is left out: the model keeps no clock.
FileEntry(id, size) == [id |-> id, type |-> "file", size |-> size, lazy |-> FALSE]

FolderEntry(id) == [id |-> id, type |-> "folder", size |-> 0, lazy |-> TRUE]

PathAppend(p, name) == [p EXCEPT !.parts = Append(@, name)]

\* "/" + str(Path(relative_path) / item.name) if relative_path else "/" + item.name
ItemId(relative_path, name) ==
    IF relative_path # <<>>
    THEN <<"/">> \o PathStr(PathAppend(PathOf(relative_path), name))
    ELSE <<"/">> \o name

\* The loop over current_path.iterdir(), cur being the directory scanned:
\* item.is_file() and item.is_dir() follow a link, and an item that is
\* neither (a dangling link) is skipped.
build_file_tree_items(f, cur, relative_path) ==
    { FileEntry(ItemId(relative_path, Last(c)), f[LookupEntry(f, c, TRUE).loc].size) :
        c \in {x \in Children(f, cur) : KindAt(f, LookupEntry(f, x, TRUE), "file")} }
    \cup
    { FolderEntry(ItemId(relative_path, Last(c))) :
        c \in {x \in Children(f, cur) : KindAt(f, LookupEntry(f, x, TRUE), "dir")} }

\* l: the entry current_path names.  iterdir() on a regular file raises
\* NotADirectoryError, which the function does not catch.
build_file_tree_at(f, l, relative_path) ==
    IF l.err # "ok"
    THEN [err |-> "ok", lists |-> {<<>>}, read |-> {}]
    ELSE IF f[l.loc].kind # "dir"
    THEN [err |-> "notdir", lists |-> {<<>>}, read |-> {}]
    ELSE [err |-> "ok",
          lists |-> SortedLists(build_file_tree_items(f, l.loc, relative_path)),
          read |-> {l.loc}]

\* [err, lists, read]: the listings build_file_tree may return and the
\* directory it scanned.
build_file_tree(f, base_path, relative_path) ==
    build_file_tree_at(f,
        Lookup(f, IF relative_path # <<>> THEN PathJoin(base_path, relative_path)
                  ELSE base_path, TRUE),
        relative_path)

-----------------------------------------------------------------------------
(* The request handlers.  Each yields [fs, resp, calls, lists]: the          *)
(* filesystem afterwards, the response, the external calls made in order,   *)
(* and (for a listing) the entry sequences the response may carry.  A       *)
(* handler is a chain of operators, one per call to the filesystem: each    *)
(* takes the outcome of the call before it.                                 *)

NoResp ==
    [status |-> 0, id |-> <<>>, name |-> <<>>, type |-> "", size |-> 0,
     lazy |-> FALSE, entries |-> <<>>, read |-> {}]

Out(f, r, c) == [fs |-> f, resp |-> r, calls |-> c, lists |-> {<<>>}]

\* An HTTPException, or an exception no handler catches (500).
Fail(f, code, c) == Out(f, [NoResp EXCEPT !.status = code], c)

\* verify_chat_access: `access` is whether Chats.get_chat_by_id_and_user_id
\* found the chat for this user.
verify_chat_access(access) == access

VerifyCall == <<"verify_chat_access">>

\* sandbox_path / safe_path if safe_path else sandbox_path
TargetDir(sandbox_path, safe_path) ==
    IF safe_path # <<>> THEN PathJoin(sandbox_path, safe_path) ELSE sandbox_path

\* --- list_sandbox_files

\* t: what build_file_tree returned.
list_result(f, t) ==
    IF t.err # "ok"
    THEN Fail(f, 500, VerifyCall \o <<"mkdir", "exists", "iterdir">>)
    ELSE [fs |-> f,
          resp |-> [NoResp EXCEPT !.status = 200, !.read = t.read],
          calls |-> VerifyCall \o <<"mkdir", "exists", "iterdir">>,
          lists |-> t.lists]

\* m: the outcome of sandbox_path.mkdir(parents=True, exist_ok=True).
list_after_mkdir(m, folder_path) ==
    IF m.err # "ok" THEN Fail(m.fs, 500, VerifyCall \o <<"mkdir">>)
    ELSE list_result(m.fs,
            build_file_tree(m.fs, get_sandbox_path(ChatId), sanitize_path(folder_path)))

\* The mutant of list_sandbox_files: the root is made before the access check.
list_sandbox_files_mkdir_first(f, access, use_query, p) ==
    Fail(Path_mkdir(f, get_sandbox_path(ChatId), TRUE, TRUE).fs,
         IF verify_chat_access(access) THEN 500 ELSE 404,
         <<"mkdir">> \o VerifyCall)

\* use_query: the folder comes in the `id` query parameter, not in the URL path.
list_sandbox_files(f, access, use_query, p) ==
    IF ~verify_chat_access(access) THEN Fail(f, 404, VerifyCall)
    ELSE list_after_mkdir(Path_mkdir(f, get_sandbox_path(ChatId), TRUE, TRUE),
            IF use_query THEN (IF p # <<>> THEN lstrip(p, "/") ELSE <<>>) ELSE p)

\* --- upload_sandbox_file

UploadCalls == VerifyCall \o <<"mkdir", "mkdir", "open">>

\* w: the outcome of open(file_path, "wb") and the copy.
upload_result(w, filename) ==
    IF w.err # "ok" THEN Fail(w.fs, 500, UploadCalls)
    ELSE Out(w.fs, [NoResp EXCEPT !.status = 200, !.name = filename], UploadCalls)

\* m2: the outcome of target_dir.mkdir(parents=True, exist_ok=True), which no
\* try block guards.
upload_after_dir_mkdir(m2, target_dir, filename, nbytes) ==
    IF m2.err # "ok" THEN Fail(m2.fs, 500, VerifyCall \o <<"mkdir", "mkdir">>)
    ELSE upload_result(open_wb(m2.fs, PathJoin(target_dir, filename), nbytes), filename)

upload_after_mkdir(m, target_dir, filename, nbytes) ==
    IF m.err # "ok" THEN Fail(m.fs, 500, VerifyCall \o <<"mkdir">>)
    ELSE upload_after_dir_mkdir(Path_mkdir(m.fs, target_dir, TRUE, TRUE),
                                target_dir, filename, nbytes)

upload_sandbox_file(f, access, id, filename, nbytes) ==
    IF ~verify_chat_access(access) THEN Fail(f, 404, VerifyCall)
    ELSE upload_after_mkdir(Path_mkdir(f, get_sandbox_path(ChatId), TRUE, TRUE),
            TargetDir(get_sandbox_path(ChatId), sanitize_path(lstrip(id, "/"))),
            filename, nbytes)

\* --- download_sandbox_file

\* The FileResponse for the file at l.
download_result(f, l, target_file) ==
    Out(f, [NoResp EXCEPT !.status = 200,
                          !.name = Last(target_file.parts),
                          !.size = f[l.loc].size,
                          !.read = {l.loc}],
        VerifyCall \o <<"exists", "is_file", "resolve", "read">>)

\* l: the entry target_file names, links followed.
download_checks(f, l, target_file, sandbox_path) ==
    IF l.err # "ok" THEN Fail(f, 404, VerifyCall \o <<"exists">>)
    ELSE IF ~KindAt(f, l, "file") THEN Fail(f, 404, VerifyCall \o <<"exists", "is_file">>)
    ELSE IF ~Confined(f, target_file, sandbox_path)
    THEN Fail(f, 403, VerifyCall \o <<"exists", "is_file", "resolve">>)
    ELSE download_result(f, l, target_file)

download_target(f, target_file, sandbox_path) ==
    download_checks(f, Lookup(f, target_file, TRUE), target_file, sandbox_path)

download_sandbox_file(f, access, file_path) ==
    IF ~verify_chat_access(access) THEN Fail(f, 404, VerifyCall)
    ELSE download_target(f, PathJoin(get_sandbox_path(ChatId), sanitize_path(file_path)),
                         get_sandbox_path(ChatId))

\* --- delete_sandbox_file

DeleteCalls == VerifyCall \o <<"exists", "resolve", "is_file", "remove">>

\* d: the outcome of unlink() or rmtree().
delete_result(d) ==
    IF d.err # "ok" THEN Fail(d.fs, 500, DeleteCalls)
    ELSE Out(d.fs, [NoResp EXCEPT !.status = 200], DeleteCalls)

delete_checks(f, target_path, sandbox_path) ==
    IF ~exists(f, target_path) THEN Fail(f, 404, VerifyCall \o <<"exists">>)
    ELSE IF ~Confined(f, target_path, sandbox_path)
    THEN Fail(f, 403, VerifyCall \o <<"exists", "resolve">>)
    ELSE delete_result(IF is_file(f, target_path) THEN unlink(f, target_path)
                       ELSE rmtree(f, target_path))

delete_sandbox_file(f, access, file_path) ==
    IF ~verify_chat_access(access) THEN Fail(f, 404, VerifyCall)
    ELSE delete_checks(f, PathJoin(get_sandbox_path(ChatId), sanitize_path(file_path)),
                       get_sandbox_path(ChatId))

\* --- create_file_or_folder

\* The id a create or rename returns: "/" + str(p.relative_to(sandbox_path)).
ReturnedId(p, sandbox_path) == <<"/">> \o PathStr(RelativeTo(p, sandbox_path))

CreateCalls == VerifyCall \o <<"body", "mkdir", "create">>

\* The size stat() reports for the path p.
StatSize(f, l) == f[l.loc].size

\* c: the outcome of mkdir(parents=True, exist_ok=False) or touch(exist_ok=False).
\* FileExistsError becomes 409, any other exception (the ValueError of
\* relative_to among them) 500.
create_result(c, sandbox_path, new_item_path, item_type) ==
    IF c.err = "exists" THEN Fail(c.fs, 409, CreateCalls)
    ELSE IF c.err # "ok" THEN Fail(c.fs, 500, CreateCalls)
    ELSE IF ~RelativeToOk(new_item_path, sandbox_path) THEN Fail(c.fs, 500, CreateCalls)
    ELSE IF item_type = "folder"
    THEN Out(c.fs, [NoResp EXCEPT !.status = 200,
                                  !.id = ReturnedId(new_item_path, sandbox_path),
                                  !.type = "folder", !.lazy = TRUE],
             CreateCalls \o <<"stat">>)
    ELSE Out(c.fs, [NoResp EXCEPT !.status = 200,
                                  !.id = ReturnedId(new_item_path, sandbox_path),
                                  !.type = "file",
                                  !.size = StatSize(c.fs, Lookup(c.fs, new_item_path, TRUE))],
             CreateCalls \o <<"stat">>)

create_item(f, sandbox_path, new_item_path, item_type) ==
    create_result(IF item_type = "folder" THEN Path_mkdir(f, new_item_path, TRUE, FALSE)
                  ELSE touch_excl(f, new_item_path),
                  sandbox_path, new_item_path, item_type)

\* target_dir / name, for target_dir = sandbox_path / safe_path and
\* safe_path = sanitize_path(path.lstrip("/")) if path != "/" else ""
NewItemPath(path, name) ==
    PathJoin(TargetDir(get_sandbox_path(ChatId),
                       IF path # <<"/">> THEN sanitize_path(lstrip(path, "/")) ELSE <<>>),
             name)

create_after_mkdir(m, new_item_path, item_type) ==
    IF m.err # "ok" THEN Fail(m.fs, 500, VerifyCall \o <<"body", "mkdir">>)
    ELSE create_item(m.fs, get_sandbox_path(ChatId), new_item_path, item_type)

\* body: "empty" (no body), "invalid" (not JSON) or "json".  name = <<>> is a
\* missing or empty "name".
create_file_or_folder(f, access, path, body, name, item_type) ==
    IF ~verify_chat_access(access) THEN Fail(f, 404, VerifyCall)
    ELSE IF body # "json" THEN Fail(f, 400, VerifyCall \o <<"body">>)
    ELSE IF name = <<>> THEN Fail(f, 400, VerifyCall \o <<"body">>)
    ELSE IF item_type \notin {"file", "folder"} THEN Fail(f, 400, VerifyCall \o <<"body">>)
    ELSE create_after_mkdir(Path_mkdir(f, get_sandbox_path(ChatId), TRUE, TRUE),
            NewItemPath(path, name), item_type)

\* --- create_sandbox_folder

FolderCalls == VerifyCall \o <<"mkdir", "mkdir">>

\* c: the outcome of new_folder.mkdir(parents=True, exist_ok=False).
folder_result(c, folder_name) ==
    IF c.err = "exists" THEN Fail(c.fs, 409, FolderCalls)
    ELSE IF c.err # "ok" THEN Fail(c.fs, 500, FolderCalls)
    ELSE Out(c.fs, [NoResp EXCEPT !.status = 200, !.name = folder_name], FolderCalls)

folder_after_mkdir(m, new_folder, folder_name) ==
    IF m.err # "ok" THEN Fail(m.fs, 500, VerifyCall \o <<"mkdir">>)
    ELSE folder_result(Path_mkdir(m.fs, new_folder, TRUE, FALSE), folder_name)

create_sandbox_folder(f, access, folder_name, path) ==
    IF ~verify_chat_access(access) THEN Fail(f, 404, VerifyCall)
    ELSE folder_after_mkdir(Path_mkdir(f, get_sandbox_path(ChatId), TRUE, TRUE),
            PathJoin(TargetDir(get_sandbox_path(ChatId), sanitize_path(path)), folder_name),
            folder_name)

\* --- rename_sandbox_file

RenameChecks == VerifyCall \o <<"body", "exists", "resolve", "resolve", "exists">>

\* r: the outcome of old_path.rename(new_path).
rename_result(r, new_path, sandbox_path, new_name) ==
    IF r.err # "ok" THEN Fail(r.fs, 500, RenameChecks \o <<"rename">>)
    ELSE IF ~RelativeToOk(new_path, sandbox_path)
    THEN Fail(r.fs, 500, RenameChecks \o <<"rename">>)
    ELSE Out(r.fs, [NoResp EXCEPT !.status = 200,
                                  !.id = ReturnedId(new_path, sandbox_path),
                                  !.name = new_name],
             RenameChecks \o <<"rename">>)

\* The mutant of rename_checks: no test that the new name is free.
rename_checks_no_exists(f, old_path, new_path, sandbox_path, new_name) ==
    IF ~exists(f, old_path) THEN Fail(f, 404, VerifyCall \o <<"body", "exists">>)
    ELSE IF ~Confined(f, old_path, sandbox_path) \/ ~Confined(f, new_path, sandbox_path)
    THEN Fail(f, 403, VerifyCall \o <<"body", "exists", "resolve">>)
    ELSE rename_result(os_rename(f, old_path, new_path), new_path, sandbox_path, new_name)

rename_checks(f, old_path, new_path, sandbox_path, new_name) ==
    IF ~exists(f, old_path) THEN Fail(f, 404, VerifyCall \o <<"body", "exists">>)
    ELSE IF ~Confined(f, old_path, sandbox_path)
    THEN Fail(f, 403, VerifyCall \o <<"body", "exists", "resolve">>)
    ELSE IF ~Confined(f, new_path, sandbox_path)
    THEN Fail(f, 403, VerifyCall \o <<"body", "exists", "resolve", "resolve">>)
    ELSE IF exists(f, new_path) THEN Fail(f, 409, RenameChecks)
    ELSE rename_result(os_rename(f, old_path, new_path), new_path, sandbox_path, new_name)

\* old_path, and new_path = old_path.parent / new_name
rename_paths(f, old_path, new_name) ==
    rename_checks(f, old_path, PathJoin(PathParent(old_path), new_name),
                  get_sandbox_path(ChatId), new_name)

rename_sandbox_file(f, access, file_path, body, operation, new_name) ==
    IF ~verify_chat_access(access) THEN Fail(f, 404, VerifyCall)
    ELSE IF body # "json" THEN Fail(f, 400, VerifyCall \o <<"body">>)
    ELSE IF operation # "rename" THEN Fail(f, 400, VerifyCall \o <<"body">>)
    ELSE IF new_name = <<>> THEN Fail(f, 400, VerifyCall \o <<"body">>)
    ELSE rename_paths(f, PathJoin(get_sandbox_path(ChatId),
                                  sanitize_path(lstrip(file_path, "/"))),
                      new_name)

\* --- get_sandbox_info

\* The file an item counts as under is_file() / stat(): itself, or the file
\* its link leads to.
StatLoc(f, l) == IF f[l].kind = "link" THEN f[l].target ELSE l

\* total_size += item.stat().st_size, over the items
RECURSIVE SumSizes(_, _)
SumSizes(f, items) ==
    IF items = {} THEN 0
    ELSE SumSizes(f, items \ {CHOOSE x \in items : TRUE})
         + f[StatLoc(f, CHOOSE x \in items : TRUE)].size

\* The mutant of RGlob: glob("*"), the entries of the root itself only.
RGlobShallow(f, root) == Children(f, root)

\* What sandbox_path.rglob("*") yields: everything below the root that is
\* reached through directories (a linked directory is not descended into).
RGlob(f, root) ==
    {l \in DOMAIN f : /\ IsPrefix(root, l) /\ l # root
                      /\ \A k \in (Len(root) + 1)..(Len(l) - 1) :
                            f[SubSeq(l, 1, k)].kind = "dir"}

\* The items for which item.is_file() holds.
InfoFiles(f, root) ==
    {x \in RGlob(f, root) :
        StatLoc(f, x) \in DOMAIN f /\ f[StatLoc(f, x)].kind = "file"}

\* "total": 100MB.
TotalBytes == 100000000

\* l: the entry sandbox_path names.
info_result(f, l) ==
    IF l.err # "ok"
    THEN Out(f, [NoResp EXCEPT !.status = 200, !.size = 0], VerifyCall \o <<"exists">>)
    ELSE Out(f, [NoResp EXCEPT !.status = 200,
                               !.size = SumSizes(f, InfoFiles(f, l.loc)),
                               !.read = {l.loc}],
             VerifyCall \o <<"exists", "rglob">>)

get_sandbox_info(f, access) ==
    IF ~verify_chat_access(access) THEN Fail(f, 404, VerifyCall)
    ELSE info_result(f, Lookup(f, get_sandbox_path(ChatId), TRUE))

-----------------------------------------------------------------------------
(* The world the requests run in *)

\* What exists outside the sandbox of ChatId: the base directory and the
\* sandbox of another chat, holding one file.
SecretLoc == Append(OtherRootLoc, <<"s">>)

OutsideWorld ==
    [l \in {<<>>, <<DataName>>, BaseLoc, OtherRootLoc, SecretLoc} |->
        IF l = SecretLoc THEN FileNode(1) ELSE DirNode]

\* A symbolic link the sandboxed code may have left in the sandbox root.
LinkLoc == Append(RootLoc, <<"l">>)

\* Where it may point: another chat's sandbox, or a name missing from it.
LinkTargets == {OtherRootLoc, Append(OtherRootLoc, <<"n">>)}

\* The sandbox is not materialized yet, or holds the link and nothing else.
InitialFilesystems ==
    {OutsideWorld}
    \cup {FsPut(FsPut(OutsideWorld, RootLoc, DirNode), LinkLoc, LinkNode(t)) :
            t \in LinkTargets}

\* The entries a run has added to the world.
Added(f) == DOMAIN f \ (DOMAIN OutsideWorld \cup {RootLoc, LinkLoc})

\* The paths and names the requests carry.
RawPaths ==
    { <<>>,
      <<"d">>,
      <<"l">>,
      <<"%", "2", "e", "%", "2", "e", "/">> }

\* The folders uploads and creations are sent to.
CreatePaths == {<<>>, <<"d">>}

\* The folders uploads are sent to: the linked one among them.
UploadPaths == CreatePaths \cup {<<"l">>}

RawNames ==
    { <<"f">>,
      <<"d">>,
      <<".", ".", "/", "x">> }

\* The new names a rename carries: the link's name among them.
RenameNames == RawNames \cup {<<"l">>}

\* The lengths, in bytes, of the bodies uploaded (a created file has 0 bytes).
UploadSizes == {1}

NoReq ==
    [op |-> "none", access |-> TRUE, path |-> <<>>, name |-> <<>>, kind |-> "",
     body |-> "", operation |-> "", nbytes |-> 0, use_query |-> FALSE]

\* All raw strings over Alphabet of at most MaxRawLen characters, and the
\* examples of the documentation.
RawStrings ==
    UNION {[1..n -> Alphabet] : n \in 0..MaxRawLen}
    \cup { <<".", ".", "/", ".", ".", "/", "e", "t", "c", "/", "p", "a", "s", "s", "w", "d">>,
           <<"a", "/", "/", "b", "/", ".", "/", "c", "/", ".", ".", "/", "d">>,
           <<"%", "2", "e", "%", "2", "e", "/", "%", "2", "f", "x">> }

Init ==
    /\ raw = <<>>
    /\ clean = <<>>
    /\ sanitized = FALSE
    /\ fs \in InitialFilesystems
    /\ pre = fs
    /\ req = NoReq
    /\ resp = NoResp
    /\ calls = <<>>
    /\ procs = <<>>

\* A request arrives when the server is idle (req.op = "none"); the handler
\* runs to its end and its outcome is the next state.
Handle(r, o) ==
    /\ req.op = "none"
    /\ Cardinality(Added(o.fs)) <= MaxEntries
    /\ fs' = o.fs
    /\ pre' = fs
    /\ req' = r
    /\ calls' = o.calls
    /\ \E entries \in o.lists : resp' = [o.resp EXCEPT !.entries = entries]
    /\ UNCHANGED <<raw, clean, sanitized, procs>>

\* A request the access check denies, or one with a malformed body, is drawn
\* with one value of each other input.
List ==
    \E access \in BOOLEAN, use_query \in BOOLEAN, p \in RawPaths :
        /\ ~access => p = <<>> /\ ~use_query
        /\ use_query => p = <<"d">>
        /\ Handle([NoReq EXCEPT !.op = "list", !.access = access, !.path = p,
                                !.use_query = use_query],
                  list_sandbox_files(fs, access, use_query, p))

Upload ==
    \E access \in BOOLEAN, p \in UploadPaths, filename \in RawNames, n \in UploadSizes :
        /\ ~access => p = <<>> /\ filename = <<"f">> /\ n = 1
        /\ Handle([NoReq EXCEPT !.op = "upload", !.access = access, !.path = p,
                                !.name = filename, !.nbytes = n],
                  upload_sandbox_file(fs, access, p, filename, n))

Download ==
    \E access \in BOOLEAN, p \in RawPaths :
        /\ ~access => p = <<>>
        /\ Handle([NoReq EXCEPT !.op = "download", !.access = access, !.path = p],
                  download_sandbox_file(fs, access, p))

Delete ==
    \E access \in BOOLEAN, p \in RawPaths :
        /\ ~access => p = <<>>
        /\ Handle([NoReq EXCEPT !.op = "delete", !.access = access, !.path = p],
                  delete_sandbox_file(fs, access, p))

CreateEntry ==
    \E access \in BOOLEAN, p \in CreatePaths, body \in {"empty", "invalid", "json"},
       name \in RawNames \cup {<<>>}, kind \in {"file", "folder", "link"} :
        /\ body # "json" \/ ~access => p = <<>> /\ name = <<"f">> /\ kind = "file"
        /\ ~access => body = "json"
        /\ name = <<>> => p = <<>> /\ kind = "file"
        /\ kind = "link" => p = <<>> /\ name = <<"f">>
        /\ Handle([NoReq EXCEPT !.op = "create", !.access = access, !.path = p,
                                !.body = body, !.name = name, !.kind = kind],
                  create_file_or_folder(fs, access, p, body, name, kind))

CreateFolder ==
    \E access \in BOOLEAN, p \in CreatePaths, folder_name \in RawNames :
        /\ ~access => p = <<>> /\ folder_name = <<"d">>
        /\ Handle([NoReq EXCEPT !.op = "folder", !.access = access, !.path = p,
                                !.name = folder_name],
                  create_sandbox_folder(fs, access, folder_name, p))

Rename ==
    \E access \in BOOLEAN, p \in RawPaths, body \in {"empty", "invalid", "json"},
       operation \in {"rename", "copy"}, new_name \in RenameNames \cup {<<>>} :
        /\ body # "json" \/ ~access =>
              p = <<>> /\ new_name = <<"f">> /\ operation = "rename"
        /\ ~access => body = "json"
        /\ operation # "rename" \/ new_name = <<>> => p = <<"d">>
        /\ operation # "rename" => new_name = <<"f">>
        /\ Handle([NoReq EXCEPT !.op = "rename", !.access = access, !.path = p,
                                !.body = body, !.operation = operation,
                                !.name = new_name],
                  rename_sandbox_file(fs, access, p, body, operation, new_name))

Info ==
    \E access \in BOOLEAN :
        Handle([NoReq EXCEPT !.op = "info", !.access = access],
               get_sandbox_info(fs, access))

\* The response is sent; the server is idle again.
Respond ==
    /\ req.op # "none"
    /\ req' = NoReq
    /\ resp' = NoResp
    /\ calls' = <<>>
    /\ pre' = fs
    /\ UNCHANGED <<raw, clean, sanitized, fs, procs>>

Next ==
    \/ List
    \/ Upload
    \/ Download
    \/ Delete
    \/ CreateEntry
    \/ CreateFolder
    \/ Rename
    \/ Info
    \/ Respond

Spec == Init /\ [][Next]_vars

-----------------------------------------------------------------------------
(* sanitize_path on its own *)

InitSan ==
    /\ raw \in RawStrings
    /\ clean = <<>>
    /\ sanitized = FALSE
    /\ fs = OutsideWorld
    /\ pre = OutsideWorld
    /\ req = NoReq
    /\ resp = NoResp
    /\ calls = <<>>
    /\ procs = <<>>

Sanitize ==
    /\ ~sanitized
    /\ clean' = sanitize_path(raw)
    /\ sanitized' = TRUE
    /\ UNCHANGED <<raw, fs, pre, req, resp, calls, procs>>

NextSan == Sanitize

SpecSan == InitSan /\ [][NextSan]_vars

-----------------------------------------------------------------------------
(* Two create_file_or_folder requests in flight at once.  Each request is a *)
(* process that takes one step per system call, so that the calls of the    *)
(* two interleave in every order; every call is atomic in the kernel.       *)

Procs == {1, 2}

ConcPaths == {<<>>, <<"d">>}

ConcNames == {<<"f">>, <<"d">>}

\* The sandbox is missing, empty, or holds the folder d.
ConcFilesystems ==
    { OutsideWorld,
      FsPut(OutsideWorld, RootLoc, DirNode),
      FsPut(FsPut(OutsideWorld, RootLoc, DirNode), Append(RootLoc, <<"d">>), DirNode) }

\* One pending call of Path.mkdir: os.mkdir(p) under these flags.
MkdirFrame(p, parents, exist_ok) == [p |-> p, parents |-> parents, exist_ok |-> exist_ok]

\* A request that has not started: its body is valid JSON.
ConcRequest(access, path, name, kind) ==
    [pc |-> "start", access |-> access, path |-> path, name |-> name, kind |-> kind,
     target |-> NewItemPath(path, name), frames |-> <<>>,
     status |-> 0, id |-> <<>>, type |-> "", size |-> 0]

ConcRequests ==
    { ConcRequest(access, path, name, kind) :
        access \in BOOLEAN, path \in ConcPaths, name \in ConcNames,
        kind \in {"file", "folder"} }

\* The handler ends with this status.
ProcEnd(pr, code) == [pr EXCEPT !.pc = "done", !.frames = <<>>, !.status = code]

\* An exception leaves Path.mkdir: the root's mkdir is outside the try block
\* (500); in the try block FileExistsError is 409 and anything else 500.
ProcRaise(pr, err) ==
    ProcEnd(pr, IF pr.pc = "mkdir_item" /\ err = "exists" THEN 409 ELSE 500)

\* The item is made: the response is built (relative_to may raise ValueError).
ProcCreated(pr, size) ==
    IF ~RelativeToOk(pr.target, get_sandbox_path(ChatId)) THEN ProcEnd(pr, 500)
    ELSE [pr EXCEPT !.pc = "done", !.frames = <<>>, !.status = 200,
                    !.id = ReturnedId(pr.target, get_sandbox_path(ChatId)),
                    !.type = pr.kind, !.size = size]

\* A call of Path.mkdir returns: to the Path.mkdir that called it, or to the
\* handler, which goes on to make the item or to stat() the folder it made.
ProcReturn(pr) ==
    IF Len(pr.frames) > 1 THEN [pr EXCEPT !.frames = Tail(@)]
    ELSE IF pr.pc = "mkdir_item" THEN [pr EXCEPT !.pc = "stat", !.frames = <<>>]
    ELSE IF pr.kind = "folder"
    THEN [pr EXCEPT !.pc = "mkdir_item",
                    !.frames = <<MkdirFrame(pr.target, TRUE, FALSE)>>]
    ELSE [pr EXCEPT !.pc = "touch", !.frames = <<>>]

\* Path.mkdir after its os.mkdir(fr.p) ended as r.
ProcAfterMkdir(pr, fr, r) ==
    IF r.err = "ok" THEN ProcReturn(pr)
    ELSE IF r.err = "noent"
    THEN IF ~fr.parents \/ PathParent(fr.p) = fr.p THEN ProcRaise(pr, r.err)
         ELSE [pr EXCEPT !.frames = <<MkdirFrame(PathParent(fr.p), TRUE, TRUE),
                                      MkdirFrame(fr.p, FALSE, fr.exist_ok)>>
                                    \o Tail(@)]
    ELSE IF ~fr.exist_ok \/ ~is_dir(r.fs, fr.p) THEN ProcRaise(pr, r.err)
    ELSE ProcReturn(pr)

\* The handler after new_item_path.touch(exist_ok=False) ended as r.
ProcAfterTouch(pr, r) ==
    IF r.err = "ok" THEN [pr EXCEPT !.pc = "stat"]
    ELSE ProcEnd(pr, IF r.err = "exists" THEN 409 ELSE 500)

\* The handler after new_item_path.stat(), l being the entry found: the
\* response of a file carries st_size, that of a folder no size.
ProcAfterStat(pr, f, l) ==
    IF l.err # "ok" THEN ProcEnd(pr, 500)
    ELSE ProcCreated(pr, IF pr.kind = "file" THEN f[l.loc].size ELSE 0)

InitConc ==
    /\ raw = <<>>
    /\ clean = <<>>
    /\ sanitized = FALSE
    /\ fs \in ConcFilesystems
    /\ pre = fs
    /\ req = NoReq
    /\ resp = NoResp
    /\ calls = <<>>
    /\ procs \in [Procs -> ConcRequests]

\* verify_chat_access, then the body's checks; the next call is
\* sandbox_path.mkdir(parents=True, exist_ok=True).
CStart(i) ==
    /\ procs[i].pc = "start"
    /\ procs' = [procs EXCEPT ![i] =
            IF ~verify_chat_access(procs[i].access) THEN ProcEnd(@, 404)
            ELSE [@ EXCEPT !.pc = "mkdir_root",
                           !.frames = <<MkdirFrame(get_sandbox_path(ChatId), TRUE, TRUE)>>]]
    /\ UNCHANGED <<raw, clean, sanitized, fs, pre, req, resp, calls>>

\* One os.mkdir, of the root's Path.mkdir or of the item's.
CMkdirStep(i, r) ==
    /\ fs' = r.fs
    /\ procs' = [procs EXCEPT ![i] = ProcAfterMkdir(@, @.frames[1], r)]

CMkdir(i) ==
    /\ procs[i].pc \in {"mkdir_root", "mkdir_item"}
    /\ CMkdirStep(i, os_mkdir(fs, procs[i].frames[1].p))
    /\ UNCHANGED <<raw, clean, sanitized, pre, req, resp, calls>>

CTouchStep(i, r) ==
    /\ fs' = r.fs
    /\ procs' = [procs EXCEPT ![i] = ProcAfterTouch(@, r)]

CTouch(i) ==
    /\ procs[i].pc = "touch"
    /\ CTouchStep(i, touch_excl(fs, procs[i].target))
    /\ UNCHANGED <<raw, clean, sanitized, pre, req, resp, calls>>

CStat(i) ==
    /\ procs[i].pc = "stat"
    /\ procs' = [procs EXCEPT ![i] =
                    ProcAfterStat(@, fs, Lookup(fs, @.target, TRUE))]
    /\ UNCHANGED <<raw, clean, sanitized, fs, pre, req, resp, calls>>

NextConc ==
    \E i \in Procs :
        \/ CStart(i)
        \/ CMkdir(i)
        \/ CTouch(i)
        \/ CStat(i)

SpecConc == InitConc /\ [][NextConc]_vars

-----------------------------------------------------------------------------
(* Two rename_sandbox_file requests in flight at once, one step per system  *)
(* call: exists() of the old path, the two resolve() tests, exists() of the *)
(* new path and the rename itself are separate calls, and the calls of the  *)
(* two requests interleave in every order.                                   *)

RenPaths == {<<"f">>, <<"d">>}

RenNames == {<<"x">>, <<"f">>}

\* The sandbox holds the file f of 1 byte and the file d of 0 bytes.
RenFilesystems ==
    { FsPut(FsPut(FsPut(OutsideWorld, RootLoc, DirNode),
                  Append(RootLoc, <<"f">>), FileNode(1)),
            Append(RootLoc, <<"d">>), FileNode(0)) }

\* A rename request that has not started: its body is valid JSON with
\* operation "rename".
RenRequest(access, file_path, new_name) ==
    [pc |-> "start", access |-> access, path |-> file_path, name |-> new_name,
     old |-> PathJoin(get_sandbox_path(ChatId), sanitize_path(lstrip(file_path, "/"))),
     new |-> PathJoin(PathParent(PathJoin(get_sandbox_path(ChatId),
                                          sanitize_path(lstrip(file_path, "/")))),
                      new_name),
     status |-> 0, id |-> <<>>]

RenRequests ==
    { RenRequest(access, p, n) : access \in BOOLEAN, p \in RenPaths, n \in RenNames }

\* The handler ends with this status.
RenEnd(pr, code) == [pr EXCEPT !.pc = "done", !.status = code]

\* The handler passes a test and goes on to the next call.
RenGoto(pr, pc) == [pr EXCEPT !.pc = pc]

\* The handler after old_path.rename(new_path) ended as r: any exception,
\* the ValueError of relative_to included, is 500.
RenAfterRename(pr, r) ==
    IF r.err # "ok" \/ ~RelativeToOk(pr.new, get_sandbox_path(ChatId))
    THEN RenEnd(pr, 500)
    ELSE [pr EXCEPT !.pc = "done", !.status = 200,
                    !.id = ReturnedId(pr.new, get_sandbox_path(ChatId))]

InitRen ==
    /\ raw = <<>>
    /\ clean = <<>>
    /\ sanitized = FALSE
    /\ fs \in RenFilesystems
    /\ pre = fs
    /\ req = NoReq
    /\ resp = NoResp
    /\ calls = <<>>
    /\ procs \in [Procs -> RenRequests]

\* verify_chat_access and the body's checks.
RStart(i) ==
    /\ procs[i].pc = "start"
    /\ procs' = [procs EXCEPT ![i] =
            IF ~verify_chat_access(@.access) THEN RenEnd(@, 404)
            ELSE RenGoto(@, "exists_old")]
    /\ UNCHANGED <<raw, clean, sanitized, fs, pre, req, resp, calls>>

\* if not old_path.exists(): 404
RExistsOld(i) ==
    /\ procs[i].pc = "exists_old"
    /\ procs' = [procs EXCEPT ![i] =
            IF ~exists(fs, @.old) THEN RenEnd(@, 404) ELSE RenGoto(@, "resolve_old")]
    /\ UNCHANGED <<raw, clean, sanitized, fs, pre, req, resp, calls>>

\* old_path.resolve().relative_to(sandbox_path.resolve()): 403
RResolveOld(i) ==
    /\ procs[i].pc = "resolve_old"
    /\ procs' = [procs EXCEPT ![i] =
            IF ~Confined(fs, @.old, get_sandbox_path(ChatId)) THEN RenEnd(@, 403)
            ELSE RenGoto(@, "resolve_new")]
    /\ UNCHANGED <<raw, clean, sanitized, fs, pre, req, resp, calls>>

\* new_path.resolve().relative_to(sandbox_path.resolve()): 403
RResolveNew(i) ==
    /\ procs[i].pc = "resolve_new"
    /\ procs' = [procs EXCEPT ![i] =
            IF ~Confined(fs, @.new, get_sandbox_path(ChatId)) THEN RenEnd(@, 403)
            ELSE RenGoto(@, "exists_new")]
    /\ UNCHANGED <<raw, clean, sanitized, fs, pre, req, resp, calls>>

\* if new_path.exists(): 409
RExistsNew(i) ==
    /\ procs[i].pc = "exists_new"
    /\ procs' = [procs EXCEPT ![i] =
            IF exists(fs, @.new) THEN RenEnd(@, 409) ELSE RenGoto(@, "rename")]
    /\ UNCHANGED <<raw, clean, sanitized, fs, pre, req, resp, calls>>

RRenameStep(i, r) ==
    /\ fs' = r.fs
    /\ procs' = [procs EXCEPT ![i] = RenAfterRename(@, r)]

\* old_path.rename(new_path)
RRename(i) ==
    /\ procs[i].pc = "rename"
    /\ RRenameStep(i, os_rename(fs, procs[i].old, procs[i].new))
    /\ UNCHANGED <<raw, clean, sanitized, pre, req, resp, calls>>

NextRen ==
    \E i \in Procs :
        \/ RStart(i)
        \/ RExistsOld(i)
        \/ RResolveOld(i)
        \/ RResolveNew(i)
        \/ RExistsNew(i)
        \/ RRename(i)

SpecRen == InitRen /\ [][NextRen]_vars

-----------------------------------------------------------------------------
(* A delete_sandbox_file request on a sandbox that holds a tree of folders  *)
(* and files, followed by a list_sandbox_files request for the parent of    *)
(* the deleted path.                                                        *)

\* The names an entry of the tree may have, as locations below the root.
TreeLocs ==
    { <<<<"d">>>>, <<<<"d">>, <<"f">>>>, <<<<"d">>, <<"d">>>>,
      <<<<"d">>, <<"d">>, <<"f">>>>, <<<<"f">>>> }

\* The folders among them; the others are files of 1 byte.
TreeDirs == { <<<<"d">>>>, <<<<"d">>, <<"d">>>> }

\* Sets of entries that hold, with every entry, the folder it is in.
TreeShapes ==
    { S \in SUBSET TreeLocs :
        \A t \in S : Len(t) > 1 => Front(t) \in S /\ Front(t) \in TreeDirs }

\* The world with the sandbox root, the entries of S below it and, if
\* linked, the link l to another chat's sandbox.
TreeWorld(S, linked) ==
    [l \in DOMAIN OutsideWorld \cup {RootLoc} \cup {RootLoc \o t : t \in S}
           \cup (IF linked THEN {LinkLoc} ELSE {}) |->
        IF l \in DOMAIN OutsideWorld THEN OutsideWorld[l]
        ELSE IF l = RootLoc THEN DirNode
        ELSE IF l = LinkLoc THEN LinkNode(OtherRootLoc)
        ELSE IF SubSeq(l, Len(RootLoc) + 1, Len(l)) \in TreeDirs THEN DirNode
        ELSE FileNode(1)]

TreeFilesystems == { TreeWorld(S, linked) : S \in TreeShapes, linked \in BOOLEAN }

\* The paths the delete requests carry.
DelPaths ==
    { <<>>, <<"d">>, <<"f">>, <<"l">>, <<"d", "/", "d">>, <<"d", "/", "f">>,
      <<"d", "/", "d", "/", "f">> }

\* The folder a path lies in, as the path a list request carries.
ParentPath(p) == join(Front(split(p, "/")), "/")

InitDel ==
    /\ raw = <<>>
    /\ clean = <<>>
    /\ sanitized = FALSE
    /\ fs \in TreeFilesystems
    /\ pre = fs
    /\ req = NoReq
    /\ resp = NoResp
    /\ calls = <<>>
    /\ procs = <<>>

\* The outcome o of a handler is the next state; pre keeps the filesystem
\* the delete request found.
DelHandle(r, o, before) ==
    /\ fs' = o.fs
    /\ pre' = before
    /\ req' = r
    /\ calls' = o.calls
    /\ \E entries \in o.lists : resp' = [o.resp EXCEPT !.entries = entries]
    /\ UNCHANGED <<raw, clean, sanitized, procs>>

DelDelete ==
    /\ req.op = "none"
    /\ \E access \in BOOLEAN, p \in DelPaths :
          /\ ~access => p = <<>>
          /\ DelHandle([NoReq EXCEPT !.op = "delete", !.access = access, !.path = p],
                       delete_sandbox_file(fs, access, p), fs)

\* After a delete that succeeded: a list of the folder the path lay in.
DelList ==
    /\ req.op = "delete"
    /\ resp.status = 200
    /\ DelHandle([req EXCEPT !.op = "list", !.name = ParentPath(req.path)],
                 list_sandbox_files(fs, TRUE, FALSE, ParentPath(req.path)), pre)

NextDel == DelDelete \/ DelList

SpecDel == InitDel /\ [][NextDel]_vars

-----------------------------------------------------------------------------
(* A rename_sandbox_file request on a sandbox that holds a tree of folders  *)
(* and files.                                                               *)

\* The new names the rename requests carry: plain, with "..", with "/".
MoveNames == { <<"x">>, <<"f">>, <<".", ".", "/", "x">>, <<"d", "/", "x">> }

MoveRename ==
    /\ req.op = "none"
    /\ \E access \in BOOLEAN, p \in DelPaths, new_name \in MoveNames :
          /\ ~access => p = <<>> /\ new_name = <<"x">>
          /\ DelHandle([NoReq EXCEPT !.op = "rename", !.access = access, !.path = p,
                                     !.body = "json", !.operation = "rename",
                                     !.name = new_name],
                       rename_sandbox_file(fs, access, p, "json", "rename", new_name),
                       fs)

NextMove == MoveRename

SpecMove == InitDel /\ [][NextMove]_vars

-----------------------------------------------------------------------------
(* A list_sandbox_files request on a sandbox whose entries differ in kind   *)
(* and in the case of their names.                                          *)

\* The names of the entries of the root.
ListNames == { <<"a">>, <<"A">>, <<"B">> }

\* What kind each name has: "none" (no entry), "file" or "dir".
ListKinds == [ListNames -> {"none", "file", "dir"}]

\* The world with the sandbox root and the entries k gives; if nested, the
\* folder B (when there is one) holds the file a.
ListWorld(k, nested) ==
    [l \in DOMAIN OutsideWorld \cup {RootLoc}
           \cup {Append(RootLoc, n) : n \in {m \in ListNames : k[m] # "none"}}
           \cup (IF nested /\ k[<<"B">>] = "dir"
                 THEN {RootLoc \o <<<<"B">>, <<"a">>>>} ELSE {}) |->
        IF l \in DOMAIN OutsideWorld THEN OutsideWorld[l]
        ELSE IF l = RootLoc THEN DirNode
        ELSE IF Len(l) = Len(RootLoc) + 2 THEN FileNode(1)
        ELSE IF k[Last(l)] = "dir" THEN DirNode
        ELSE FileNode(1)]

ListFilesystems == { ListWorld(k, nested) : k \in ListKinds, nested \in BOOLEAN }

\* The folders the list requests name.
ListPaths == { <<>>, <<"B">>, <<"a">> }

InitList ==
    /\ raw = <<>>
    /\ clean = <<>>
    /\ sanitized = FALSE
    /\ fs \in ListFilesystems
    /\ pre = fs
    /\ req = NoReq
    /\ resp = NoResp
    /\ calls = <<>>
    /\ procs = <<>>

ListList ==
    /\ req.op = "none"
    /\ \E p \in ListPaths :
          DelHandle([NoReq EXCEPT !.op = "list", !.path = p],
                    list_sandbox_files(fs, TRUE, FALSE, p), fs)

NextList == ListList

SpecList == InitList /\ [][NextList]_vars

-----------------------------------------------------------------------------
(* A create_file_or_folder request on a sandbox with a tree of entries, and *)
(* after a success a list_sandbox_files request for the same path.          *)

\* The paths the create requests carry.
MakePaths == { <<>>, <<"d">>, <<"d", "/", "d">> }

\* The names their bodies carry.
MakeNames == { <<"x">>, <<"f">>, <<"d", "/", "x">>, <<".", ".", "/", "x">> }

MakeCreate ==
    /\ req.op = "none"
    /\ \E p \in MakePaths, name \in MakeNames, item_type \in {"file", "folder"} :
          DelHandle([NoReq EXCEPT !.op = "create", !.path = p, !.body = "json",
                                  !.name = name, !.kind = item_type],
                    create_file_or_folder(fs, TRUE, p, "json", name, item_type), fs)

\* After a create that succeeded: a list of the path the create carried.
\* procs keeps the response the create returned.
MakeList ==
    /\ req.op = "create"
    /\ resp.status = 200
    /\ \E o \in {list_sandbox_files(fs, TRUE, FALSE, req.path)} :
          /\ fs' = o.fs
          /\ calls' = o.calls
          /\ \E entries \in o.lists : resp' = [o.resp EXCEPT !.entries = entries]
    /\ req' = [req EXCEPT !.op = "list"]
    /\ procs' = <<resp>>
    /\ UNCHANGED <<raw, clean, sanitized, pre>>

NextMake == MakeCreate \/ MakeList

SpecMake == InitDel /\ [][NextMake]_vars

-----------------------------------------------------------------------------
(* Properties.  A state with req.op # "none" is the state a handler has     *)
(* left: pre is the filesystem it started from, fs the one it ended with,   *)
(* resp its response and calls the calls it made.                           *)

SandboxRoot == get_sandbox_path(ChatId)

\* The locations that differ between two filesystems.
Changed(f, g) ==
    {l \in DOMAIN f \cup DOMAIN g :
        l \notin DOMAIN f \/ l \notin DOMAIN g \/ f[l] # g[l]}

\* The locations the request read, created, wrote, moved or deleted.
Touched == Changed(pre, fs) \cup resp.read

\* The tree at loc is the same in f and g.
SubtreeSame(f, g, loc) ==
    \A l \in DOMAIN f \cup DOMAIN g :
        IsPrefix(loc, l) => l \in DOMAIN f /\ l \in DOMAIN g /\ f[l] = g[l]

PathOps == {"list", "upload", "download", "delete", "create", "folder", "rename"}

\* The request passed the access check and the checks of its body.
ValidRequest ==
    /\ req.access
    /\ req.op \in {"create", "rename"} => req.body = "json" /\ req.name # <<>>
    /\ req.op = "create" => req.kind \in {"file", "folder"}
    /\ req.op = "rename" => req.operation = "rename"

\* sandbox_path / sanitize_path(path), as download, delete and rename form it.
RequestPath ==
    PathJoin(SandboxRoot,
             sanitize_path(IF req.op = "rename" THEN lstrip(req.path, "/") ELSE req.path))

\* The location a returned identifier denotes.
IdPath(id) == PathJoin(SandboxRoot, lstrip(id, "/"))

\* C1: every location an operation taking a path or a name reads, creates,
\* writes, moves or deletes is the sandbox root or below it, for every input.
C1_TouchesOnlySandbox ==
    req.op \in PathOps => \A l \in Touched : Within(l, RootLoc)

NoEmptyOrDotSegment(s) ==
    \A k \in 1..Len(split(s, "/")) :
        split(s, "/")[k] \notin {<<>>, DotSeg, DotDotSeg}

OnlyDotsAndSlashes(s) ==
    \A k \in 1..Len(split(s, "/")) :
        split(s, "/")[k] \in {<<>>, DotSeg, DotDotSeg}

\* C2: the output of sanitize_path has no segment ".", ".." or "", neither
\* begins nor ends with "/", and is empty for an input made only of ".",
\* ".." and slashes.
C2_SanitizedShape ==
    sanitized =>
        /\ clean # <<>> =>
              /\ NoEmptyOrDotSegment(clean)
              /\ clean[1] # "/"
              /\ clean[Len(clean)] # "/"
        /\ OnlyDotsAndSlashes(raw) => clean = <<>>

\* An encoded traversal ("%2e%2e/%2fx") has been sanitized to "x".
C2_Witness ==
    /\ sanitized
    /\ raw = <<"%", "2", "e", "%", "2", "e", "/", "%", "2", "f", "x">>
    /\ clean = <<"x">>

ExamplePasswd ==
    <<".", ".", "/", ".", ".", "/", "e", "t", "c", "/", "p", "a", "s", "s", "w", "d">>

ExampleMixed == <<"a", "/", "/", "b", "/", ".", "/", "c", "/", ".", ".", "/", "d">>

\* C3 as stated: sanitize("") = "", sanitize("../../etc/passwd") =
\* "etc/passwd" and sanitize("a//b/./c/../d") = "a/b/d".
C3_ExamplesAsStated ==
    sanitized =>
        /\ raw = <<>> => clean = <<>>
        /\ raw = ExamplePasswd =>
              clean = <<"e", "t", "c", "/", "p", "a", "s", "s", "w", "d">>
        /\ raw = ExampleMixed => clean = <<"a", "/", "b", "/", "d">>

\* C3, amended: sanitize("") = "", sanitize("../../etc/passwd") =
\* "etc/passwd" and sanitize("a//b/./c/../d") = "a/b/c/d" (a ".." segment is
\* dropped, the segment before it is kept).
C3_Examples ==
    sanitized =>
        /\ raw = <<>> => clean = <<>>
        /\ raw = ExamplePasswd =>
              clean = <<"e", "t", "c", "/", "p", "a", "s", "s", "w", "d">>
        /\ raw = ExampleMixed => clean = <<"a", "/", "b", "/", "c", "/", "d">>

C3_Witness ==
    /\ sanitized
    /\ raw = ExampleMixed
    /\ clean = <<"a", "/", "b", "/", "c", "/", "d">>

\* C4: the identifier of every Entry that List, CreateEntry or Rename returns
\* resolves to the sandbox root or to a location below it.
C4_ReturnedIdsInside ==
    resp.status = 200 =>
        /\ req.op \in {"create", "rename"} => Confined(fs, IdPath(resp.id), SandboxRoot)
        /\ req.op = "list" =>
              \A k \in 1..Len(resp.entries) :
                  Confined(fs, IdPath(resp.entries[k].id), SandboxRoot)

\* C5: in every handler the first call is verify_chat_access, and a handler
\* the check denies makes no other call and leaves the filesystem as it was.
C5_VerifyFirst ==
    req.op # "none" =>
        /\ calls # <<>>
        /\ calls[1] = "verify_chat_access"
        /\ ~req.access =>
              /\ calls = VerifyCall
              /\ fs = pre
              /\ resp.read = {}
              /\ resp.status = 404

\* A denied upload into a sandbox that does not exist: it still does not.
C5_Witness ==
    /\ req.op = "upload"
    /\ ~req.access
    /\ calls = VerifyCall
    /\ RootLoc \notin DOMAIN fs

\* C6: Download, Delete and Rename of a path that resolves outside the
\* sandbox root end with 403, never with 404.
C6_OutsideIsDenied ==
    /\ req.op \in {"download", "delete", "rename"}
    /\ ValidRequest
    /\ ~Confined(pre, RequestPath, SandboxRoot)
    => resp.status = 403

\* C7: no operation removes or moves the sandbox root once it exists.
C7_RootStays ==
    RootLoc \in DOMAIN pre => RootLoc \in DOMAIN fs /\ fs[RootLoc].kind = "dir"

\* old_path.parent / new_name
RenameNewPath == PathJoin(PathParent(RequestPath), req.name)

\* A valid rename of an entry that exists inside the sandbox.
RenameOfEntry ==
    /\ req.op = "rename"
    /\ ValidRequest
    /\ exists(pre, RequestPath)
    /\ Confined(pre, RequestPath, SandboxRoot)

\* C8 as stated: a rename to a name that exists in the same folder ends with
\* 409 and leaves the file tree unchanged.
C8_TakenNameIsConflict ==
    /\ RenameOfEntry
    /\ Lookup(pre, RenameNewPath, FALSE).err = "ok"
    => resp.status = 409 /\ fs = pre

\* C8, amended: a rename of an existing entry to a name at which a file or
\* a folder exists, or which resolves outside the sandbox root, leaves the
\* file tree unchanged; it ends with 403 if the name resolves outside the
\* root and with 409 otherwise.
C8_TakenNameIsRefused ==
    /\ RenameOfEntry
    /\ exists(pre, RenameNewPath) \/ ~Confined(pre, RenameNewPath, SandboxRoot)
    => /\ fs = pre
       /\ resp.status = IF Confined(pre, RenameNewPath, SandboxRoot) THEN 409 ELSE 403

\* A file was to take the name of another file of its folder: refused.
C8_Witness ==
    /\ RenameOfEntry
    /\ RequestPath # RenameNewPath
    /\ is_file(pre, RequestPath)
    /\ is_file(pre, RenameNewPath)
    /\ Len(RequestPath.parts) = Len(RenameNewPath.parts)
    /\ resp.status = 409
    /\ fs = pre

\* A valid create request.
CreateOfEntry == req.op = "create" /\ ValidRequest

\* The folder the item is to be made in exists when the item is made: it is
\* the root, which the handler makes, or a directory of pre.
CreateFolderThere ==
    \/ PathParent(NewItemPath(req.path, req.name)) = SandboxRoot
    \/ is_dir(pre, PathParent(NewItemPath(req.path, req.name)))

\* The entry at new_item_path before the request, links not followed.
CreateEntryBefore == Lookup(pre, NewItemPath(req.path, req.name), FALSE)

\* C9: creating a file in a folder that has no entry of that name succeeds
\* with an Entry of type file and size 0; creating a file or folder where
\* an entry of that name exists ends with 409 and the entry is unchanged.
C9_CreateOnceThenConflict ==
    /\ CreateOfEntry /\ req.kind = "file" /\ CreateFolderThere
       /\ (RootLoc \in DOMAIN pre => CreateEntryBefore.err = "absent")
       => /\ resp.status = 200
          /\ resp.type = "file"
          /\ resp.size = 0
          /\ is_file(fs, NewItemPath(req.path, req.name))
    /\ CreateOfEntry /\ CreateEntryBefore.err = "ok"
       => /\ resp.status = 409
          /\ SubtreeSame(pre, fs, CreateEntryBefore.loc)

\* A second create of a file that has 0 bytes: refused, the file is as it was.
C9_Witness ==
    /\ CreateOfEntry
    /\ req.kind = "file"
    /\ CreateEntryBefore.err = "ok"
    /\ pre[CreateEntryBefore.loc] = FileNode(0)
    /\ Within(CreateEntryBefore.loc, RootLoc)
    /\ resp.status = 409

BothDone == \A i \in Procs : procs[i].pc = "done"

\* Both requests passed the access check and name the same item.
SameItem ==
    /\ \A i \in Procs : procs[i].access
    /\ procs[1].target = procs[2].target

\* C10: of two concurrent create requests for the same name in the same
\* folder never both succeed; if the folder is there, the one that does not
\* succeed ends with 409, and if no entry of the name was there exactly one
\* succeeds.
C10_OneCreates ==
    BothDone /\ SameItem =>
        /\ ~(procs[1].status = 200 /\ procs[2].status = 200)
        /\ (\/ PathParent(procs[1].target) = SandboxRoot
            \/ is_dir(pre, PathParent(procs[1].target)))
           => /\ {procs[1].status, procs[2].status} \subseteq {200, 409}
              /\ ~exists(pre, procs[1].target)
                 => {procs[1].status, procs[2].status} = {200, 409}

\* Two requests for the same new folder have ended: one made it, the other
\* was refused.
C10_Witness ==
    /\ BothDone
    /\ SameItem
    /\ procs[1].kind = "folder" /\ procs[2].kind = "folder"
    /\ ~exists(pre, procs[1].target)
    /\ {procs[1].status, procs[2].status} = {200, 409}
    /\ is_dir(fs, procs[1].target)

RenBothDone == \A i \in Procs : procs[i].pc = "done"

\* The regular files of a filesystem below the sandbox root.
FilesIn(f) == {l \in DOMAIN f : Within(l, RootLoc) /\ f[l].kind = "file"}

\* C11: under every interleaving, two concurrent renames of different
\* entries to the same new name never both succeed, and no file is lost:
\* a rename does not replace an entry that exists when the move is made.
C11_RenameNeverReplaces ==
    RenBothDone =>
        /\ procs[1].old # procs[2].old /\ procs[1].new = procs[2].new
           => ~(procs[1].status = 200 /\ procs[2].status = 200)
        /\ Cardinality(FilesIn(fs)) = Cardinality(FilesIn(pre))

\* The location the delete request's path named before the request.
DeletedLoc == Lookup(pre, RequestPath, FALSE).loc

\* A delete request, or the list after it, whose delete removed a folder.
FolderDeleted ==
    /\ req.op \in {"delete", "list"}
    /\ req.op = "delete" => resp.status = 200
    /\ is_dir(pre, PathJoin(SandboxRoot, sanitize_path(req.path)))

\* C12: after a successful Delete of a folder nothing exists at or below
\* its path, every entry outside the path is as it was, and a List of the
\* parent that follows does not return the folder's identifier.
C12_FolderDeleteIsRecursive ==
    /\ req.op = "delete" /\ FolderDeleted
       => /\ \A l \in DOMAIN fs : ~IsPrefix(DeletedLoc, l)
          /\ \A l \in DOMAIN pre :
                ~IsPrefix(DeletedLoc, l) => l \in DOMAIN fs /\ fs[l] = pre[l]
          /\ DOMAIN fs \subseteq DOMAIN pre
    /\ req.op = "list" /\ FolderDeleted
       => /\ resp.status = 200
          /\ \A k \in 1..Len(resp.entries) :
                resp.entries[k].id # <<"/">> \o sanitize_path(req.path)

\* The folder d, holding a folder that holds a file, was deleted, and the
\* list of the root that followed returned the file f beside it.
C12_Witness ==
    /\ req.op = "list"
    /\ req.path = <<"d">>
    /\ RootLoc \o <<<<"d">>, <<"d">>, <<"f">>>> \in DOMAIN pre
    /\ Append(RootLoc, <<"d">>) \notin DOMAIN fs
    /\ Len(resp.entries) >= 1

\* The sum of the sizes of the regular files among the locations S.
RECURSIVE BytesOf(_, _)
BytesOf(f, S) ==
    IF S = {} THEN 0
    ELSE LET l == CHOOSE x \in S : TRUE
         IN  f[l].size + BytesOf(f, S \ {l})

\* C13: Info returns as `used` the sum of the sizes of all files below the
\* sandbox root, at every depth, folders counting 0, and changes nothing;
\* if the root does not exist it returns 0 and does not create the root.
C13_InfoSumsAllFiles ==
    req.op = "info" /\ req.access =>
        /\ resp.status = 200
        /\ fs = pre
        /\ resp.size = BytesOf(fs, FilesIn(fs))
        /\ RootLoc \notin DOMAIN pre => resp.size = 0 /\ RootLoc \notin DOMAIN fs

\* Info on a sandbox whose only file, of 1 byte, lies in the folder d.
C13_Witness ==
    /\ req.op = "info"
    /\ req.access
    /\ RootLoc \o <<<<"d">>, <<"f">>>> \in DOMAIN fs
    /\ fs[RootLoc \o <<<<"d">>, <<"f">>>>] = FileNode(1)
    /\ resp.size = 1

\* sandbox_path / safe_path, as list_sandbox_files forms it.
ListPath ==
    PathJoin(SandboxRoot,
             sanitize_path(IF req.use_query THEN lstrip(req.path, "/") ELSE req.path))

\* C14: a List of a sandbox that was never materialized, or of a path at
\* which no directory exists, returns the empty sequence and no error; a
\* List returns immediate children of the listed directory only.
C14_MissingIsEmpty ==
    req.op = "list" /\ req.access =>
        /\ ~is_dir(pre, ListPath) => resp.status = 200 /\ resp.entries = <<>>
        /\ resp.status = 200 =>
              \A k \in 1..Len(resp.entries) :
                  /\ Len(IdPath(resp.entries[k].id).parts) = Len(ListPath.parts) + 1
                  /\ IsPrefix(ListPath.parts, IdPath(resp.entries[k].id).parts)

\* The entries below the sandbox root, with their contents, are the same in
\* f and g.
SameBelowRoot(f, g) ==
    \A l \in DOMAIN f \cup DOMAIN g :
        IsPrefix(RootLoc, l) /\ l # RootLoc
        => l \in DOMAIN f /\ l \in DOMAIN g /\ f[l] = g[l]

\* C15: an operation that ends with NotFound (404), AccessDenied (403),
\* Conflict (409) or InvalidRequest (400) leaves the entries below the
\* sandbox root and their contents as they were before the request.
C15_FailureChangesNothing ==
    req.op # "none" /\ resp.status \in {400, 403, 404, 409}
    => SameBelowRoot(pre, fs)

\* The location the rename request's old path named before the request.
RenamedLoc == Lookup(pre, RequestPath, FALSE).loc

\* The sibling of that location that carries the new name.
SiblingLoc == Append(Front(RenamedLoc), req.name)

\* The identifier of that sibling: parent(oldPath)/newName after a slash.
SiblingId ==
    <<"/">> \o join(Append(Front(split(sanitize_path(lstrip(req.path, "/")), "/")),
                           req.name), "/")

\* C16: a successful Rename moves the entry to the sibling that carries the
\* new name (same parent folder, last segment newName) and returns as id the
\* path parent(oldPath)/newName with a leading slash and no ".." segment,
\* for every accepted newName.
C16_RenameToSibling ==
    req.op = "rename" /\ resp.status = 200 /\ RenamedLoc # RootLoc =>
        /\ SiblingLoc \in DOMAIN fs
        /\ fs[SiblingLoc] = pre[RenamedLoc]
        /\ SiblingLoc # RenamedLoc => RenamedLoc \notin DOMAIN fs
        /\ resp.id = SiblingId
        /\ \A k \in 1..Len(split(resp.id, "/")) : split(resp.id, "/")[k] # DotDotSeg

\* C17: in the sequence List returns every folder precedes every file,
\* entries of one kind ascend in the case-insensitive order of their ids,
\* every id starts with "/" and every folder carries lazy = TRUE.
C17_ListOrder ==
    req.op = "list" /\ resp.status = 200 =>
        /\ \A i, j \in 1..Len(resp.entries) :
              i < j =>
                 /\ resp.entries[i].type = "folder" \/ resp.entries[j].type = "file"
                 /\ resp.entries[i].type = resp.entries[j].type
                    => ~StrLess(lower(resp.entries[j].id), lower(resp.entries[i].id))
        /\ \A k \in 1..Len(resp.entries) :
              /\ resp.entries[k].id # <<>>
              /\ resp.entries[k].id[1] = "/"
              /\ resp.entries[k].type \in {"file", "folder"}
              /\ resp.entries[k].type = "folder" => resp.entries[k].lazy

\* The root holds the folder B and the files a and A: the folder comes
\* first, and "/A" here comes before "/a".
C17_Witness ==
    /\ req.op = "list"
    /\ req.path = <<>>
    /\ Len(resp.entries) = 3
    /\ resp.entries[1] = FolderEntry(<<"/", "B">>)
    /\ resp.entries[2].id = <<"/", "A">>
    /\ resp.entries[3].id = <<"/", "a">>

\* The entries a list of the request's path returned on the filesystem the
\* create found, as (id, type) pairs.
ListedBefore ==
    UNION { { <<entries[k].id, entries[k].type>> : k \in 1..Len(entries) } :
            entries \in list_sandbox_files(pre, TRUE, FALSE, req.path).lists }

\* The positions of the list response whose entry was not listed before.
NewEntries ==
    { k \in 1..Len(resp.entries) :
        <<resp.entries[k].id, resp.entries[k].type>> \notin ListedBefore }

\* C18: the list of parentPath after a successful create holds exactly one
\* entry that was not there before, with the id and the type the create
\* returned, whatever the accepted name and whether or not parentPath
\* existed.
C18_CreatedIsListed ==
    req.op = "list" /\ Len(procs) = 1 =>
        /\ resp.status = 200
        /\ \E k \in 1..Len(resp.entries) :
              /\ NewEntries = {k}
              /\ resp.entries[k].id = procs[1].id
              /\ resp.entries[k].type = procs[1].type

====
